---- MODULE Spec2Model ----
(***************************************************************************)
(* A model of the analysis-and-selection code of the video editor:         *)
(*   - ShortsGenerator.findBestMoments   (src/shorts-generator.js)         *)
(*   - AIVideoProcessor.detectScenes     (src/unnamed/part_001)            *)
(*   - AudioProcessor.analyzeAudio       (src/audio-processor.js)          *)
(*   - the k-means colour quantisation   (src/unnamed/part_001)            *)
(*   - suggestCuts and generateAutoPacing (src/unnamed/part_001)           *)
(*   - the per-frame statistics          (src/shorts-generator.js,         *)
(*                                        src/unnamed/part_001)            *)
(*   - the seek-and-capture loops on a video element                       *)
(*   - MotionGraphicsEngine.renderParticles (src/motion-graphics.js)       *)
(*   - loadVideo, processFullVideo and AudioProcessor.enhanceAudio         *)
(* Each is a pipeline of its own variables; a behaviour runs one pipeline  *)
(* and leaves the others idle.                                             *)
(*                                                                         *)
(* Numbers.  The JavaScript code computes on IEEE doubles; the model uses  *)
(* integers.  Times of the shorts pipeline are integers in an arbitrary    *)
(* unit and the clip duration is an even number of units, so that          *)
(* duration / 2 is exact.  Times of the audio pipeline are in ticks of     *)
(* 1 / sampleRate = 0.1 s, so that i / sampleRate is the integer i and the *)
(* 0.5 s filter is 5 ticks.  Scores, brightness, colourfulness and audio   *)
(* levels are drawn from small sets of integers that straddle every        *)
(* threshold the code compares them with.                                  *)
(***************************************************************************)
EXTENDS Integers, Sequences, FiniteSets

VARIABLES
    \* ---- ShortsGenerator.findBestMoments
    moments,            \* the sampled moments [time, score, motion]
    videoDuration,      \* videoElement.duration
    count,              \* requested number of clips
    duration,           \* requested clip duration
    peaks,              \* the ranked, truncated candidate list
    selectedSegments,   \* the accepted segments, in acceptance order
    bestMoments,        \* the returned list (selectedSegments sorted by start)
    shortsPc,           \* "idle" | "sampled" | "done"
    \* ---- AIVideoProcessor.detectScenes
    keyFrames,          \* the key frames [time, brightness, colorfulness]
    scenes,             \* the returned scene events
    scenesPc,           \* "idle" | "sampled" | "done"
    \* ---- AudioProcessor.analyzeAudio
    audioLevels,        \* audioLevels[i+1]: the analyser's average at sample i
    audioIndex,         \* the loop variable i: samples handled so far
    currentSilentStart, \* the open-run pointer (Null: no run is open)
    silentSegments,     \* the closed runs, unfiltered
    loudSegments,       \* the loud markers
    audioResult,        \* the returned {silentSegments, loudSegments, totalSilence}
    audioPc,            \* "idle" | "sampling" | "done"
    \* ---- AIVideoProcessor.quantizeColors
    pixels,             \* the sampled pixels [r, g, b]
    paletteK,           \* the argument k
    centroids,          \* the centroids
    clusters,           \* the clusters of the last assignment
    paletteIter,        \* the loop variable iter: iterations done
    palettePc,          \* "idle" | "clustering" | "done"
    \* ---- AIVideoProcessor.suggestCuts and generateAutoPacing
    mode,               \* the argument mode
    suggestedCuts,      \* analysis.suggestedCuts
    pacing,             \* the returned {cuts, speedAdjustments, removeSegments}
    pacingPc,           \* "idle" | "analyzing" | "analyzed" | "done"
    \* ---- calculateInterestScore, calculateBrightness, analyzeFrame
    imageData,          \* the pixels [r, g, b] of the captured frame
    momentStats,        \* {score, brightness} of the pushed moment
    momentPc,           \* "idle" | "seeked" | "captured"
    frameAnalysis,      \* the value analyzeFrame returns
    framePc,            \* "idle" | "seeked" | "analyzed"
    \* ---- the sampling loops and the video element they seek
    seekDuration,       \* videoElement.duration
    currentTime,        \* videoElement.currentTime: the last time sought
    frameTime,          \* the time of the frame the element shows
    onseeked,           \* videoElement.onseeked: the handler installed last
    seekedEvents,       \* the seeks issued whose seeked event has not fired
    samplers,           \* per operation: pc, seeks issued, samples appended
    \* ---- MotionGraphicsEngine.renderParticles
    enginePc,           \* "absent" | "ready": a MotionGraphicsEngine exists
    particles,          \* this.particles: [life, y, vy] each
    passUpdates,        \* per particle of the last update pass: times updated
    \* ---- loadVideo / processFullVideo and the shared AudioProcessor
    pagePc,             \* "absent" | "ready": the page and its AudioProcessor exist
    currentVideoFile,   \* the file loadVideo loaded last, NoFile before
    sourceNode,         \* audioProcessor.sourceNode: an element or NoSource
    attached,           \* elements a media-element source was created for
    createCalls,        \* per element: createMediaElementSource calls
    enhanceLog          \* outcome of each enhanceAudio call, in order

shortsVars == <<moments, videoDuration, count, duration, peaks,
                selectedSegments, bestMoments, shortsPc>>
scenesVars == <<keyFrames, scenes, scenesPc>>
audioVars  == <<audioLevels, audioIndex, currentSilentStart, silentSegments,
                loudSegments, audioResult, audioPc>>
paletteVars == <<pixels, paletteK, centroids, clusters, paletteIter, palettePc>>
pacingVars == <<mode, suggestedCuts, pacing, pacingPc>>
frameVars == <<imageData, momentStats, momentPc, frameAnalysis, framePc>>
seekVars == <<seekDuration, currentTime, frameTime, onseeked, seekedEvents,
              samplers>>
particleVars == <<enginePc, particles, passUpdates>>
enhanceVars == <<pagePc, currentVideoFile, sourceNode, attached, createCalls, enhanceLog>>
vars == <<shortsVars, scenesVars, audioVars, paletteVars, pacingVars,
          frameVars, seekVars, particleVars, enhanceVars>>

(***************************************************************************)
(* Bounds of the model.                                                    *)
(***************************************************************************)
MaxDuration == 5        \* videoDuration ranges over 1..MaxDuration
MaxSamples == 4         \* at most this many sampled moments
MaxCount == 2           \* count ranges over 1..MaxCount
MaxHalfDuration == 2    \* duration ranges over 0, 2, .., 2 * MaxHalfDuration
MaxFrames == 3          \* at most this many key frames
MaxFrameTime == 3       \* key frame times range over 0..MaxFrameTime
MaxAudioSamples == 7    \* at most this many audio samples
MaxPixels == 4          \* at most this many sampled pixels
MaxK == 2               \* k ranges over 1..MaxK
MaxPacingFrames == 6    \* at most this many key frames in the pacing pipeline
MaxImagePixels == 12    \* at most this many pixels in a captured frame
MaxHalfSeconds == 4     \* the sought video lasts at most this many half seconds
MaxParticles == 3       \* maxParticles ranges over 1..MaxParticles
MaxFiles == 2           \* loadVideo loads one of this many files
MaxEnhanceCalls == 4    \* processFullVideo runs at most this many times

\* The values a sampled score takes: below, between and above the thresholds.
Scores == {10, 40, 90}
\* The values brightness and colourfulness take: deltas of 30, 31 and 61.
FrameValues == {0, 30, 61}
\* The analyser averages: silent, exactly at the silence threshold, loud.
Levels == {10, 30, 120}

(***************************************************************************)
(* Arithmetic and sequence helpers standing for Math.max, Math.min,        *)
(* Math.abs and Array.prototype.sort (stable since ES2019).                *)
(***************************************************************************)
Max(a, b) == IF a >= b THEN a ELSE b
Min(a, b) == IF a <= b THEN a ELSE b
Abs(a) == IF a >= 0 THEN a ELSE -a

\* The elements of a finite set of integers, ascending.
RECURSIVE Ascending(_)
Ascending(S) ==
    IF S = {} THEN <<>>
    ELSE LET m == CHOOSE x \in S : \A y \in S : x <= y
         IN  <<m>> \o Ascending(S \ {m})

Front(s) == SubSeq(s, 1, Len(s) - 1)
Last(s) == s[Len(s)]

(***************************************************************************)
(* Program constants.                                                      *)
(***************************************************************************)
ScoreThreshold == 50      \* m.score > 50
MotionThreshold == 20     \* m.motion > 20
CandidateFactor == 3      \* slice(0, count * 3)
SceneThreshold == 30      \* detectScenes: threshold
SilenceThreshold == 30    \* analyzeAudio: silenceThreshold
LoudThreshold == 100      \* analyzeAudio: average > 100
MinSilenceTicks == 5      \* analyzeAudio: s.duration > 0.5, in ticks of 0.1 s
Null == -1                \* currentSilentStart = null (times are >= 0)
MaxIterations == 10       \* quantizeColors: iter < 10

(***************************************************************************)
(* ShortsGenerator.findBestMoments, from the end of the sampling loop.     *)
(***************************************************************************)

\* for (i = 1; i < moments.length; i++) moments[i].motion = |score - score'|
CalcMotion(ms) ==
    [i \in 1..Len(ms) |->
        IF i = 1 THEN ms[i]
        ELSE [ms[i] EXCEPT !.motion = Abs(ms[i].score - ms[i - 1].score)]]

\* .map((m, idx) => ({ ...m, index: idx }))
WithIndex(ms) ==
    [i \in 1..Len(ms) |->
        [time |-> ms[i].time, score |-> ms[i].score,
         motion |-> ms[i].motion, index |-> i - 1]]

\* .filter(m => m.score > 50 || m.motion > 20)
IsPeak(m) == m.score > ScoreThreshold \/ m.motion > MotionThreshold

\* The sort key of (a, b) => (b.score + b.motion) - (a.score + a.motion).
Rank(m) == m.score + m.motion

InsertRankedBeforeTies(x, s) ==
    LET n == Cardinality({i \in 1..Len(s) : Rank(s[i]) > Rank(x)})
    IN  SubSeq(s, 1, n) \o <<x>> \o SubSeq(s, n + 1, Len(s))

\* x placed behind every element of the ranked list s that does not rank
\* below it: the step of a stable descending sort.
InsertRanked(x, s) ==
    LET n == Cardinality({i \in 1..Len(s) : Rank(s[i]) >= Rank(x)})
    IN  SubSeq(s, 1, n) \o <<x>> \o SubSeq(s, n + 1, Len(s))

RECURSIVE SortByRank(_)
SortByRank(s) ==
    IF s = <<>> THEN <<>>
    ELSE InsertRanked(Last(s), SortByRank(Front(s)))

\* .slice(0, n)
Slice(s, n) == SubSeq(s, 1, Min(Len(s), n))

\* const peaks = moments.map(..).filter(..).sort(..).slice(0, count * 3)
FindPeaks(ms, cnt) ==
    Slice(SortByRank(SelectSeq(WithIndex(ms), IsPeak)), cnt * CandidateFactor)

SegmentStartWholeDuration(peak, d) == Max(0, peak.time - d)

\* Math.max(0, peak.time - duration / 2); d is even, so d \div 2 is exact.
SegmentStart(peak, d) == Max(0, peak.time - d \div 2)

\* Math.min(videoElement.duration, peak.time + duration / 2)
SegmentEnd(peak, d, vd) == Min(vd, peak.time + d \div 2)

OverlapsStartOnly(startTime, endTime, selected) ==
    \E j \in 1..Len(selected) :
        startTime >= selected[j].start /\ startTime <= selected[j].end

OverlapsStrict(startTime, endTime, selected) ==
    \E j \in 1..Len(selected) :
        \/ startTime > selected[j].start /\ startTime < selected[j].end
        \/ endTime > selected[j].start /\ endTime < selected[j].end

\* selectedSegments.some(seg => (startTime >= seg.start && startTime <= seg.end)
\*                           || (endTime >= seg.start && endTime <= seg.end))
Overlaps(startTime, endTime, selected) ==
    \E j \in 1..Len(selected) :
        \/ startTime >= selected[j].start /\ startTime <= selected[j].end
        \/ endTime >= selected[j].start /\ endTime <= selected[j].end

\* The segment pushed for an accepted peak.
NewSegment(peak, d, vd) ==
    [start |-> SegmentStart(peak, d), end |-> SegmentEnd(peak, d, vd),
     peakTime |-> peak.time, score |-> peak.score + peak.motion]

RECURSIVE SelectLoopNoBreak(_, _, _, _, _, _)
SelectLoopNoBreak(pk, k, selected, cnt, d, vd) ==
    IF k > Len(pk) THEN selected
    ELSE IF Overlaps(SegmentStart(pk[k], d), SegmentEnd(pk[k], d, vd), selected)
         THEN SelectLoopNoBreak(pk, k + 1, selected, cnt, d, vd)
         ELSE SelectLoopNoBreak(pk, k + 1,
                  Append(selected, NewSegment(pk[k], d, vd)), cnt, d, vd)

\* for (const peak of peaks) { ... if (!overlaps) { push; if (length >= count)
\* break; } }, from the k-th peak on with `selected` accepted so far.
RECURSIVE SelectLoop(_, _, _, _, _, _)
SelectLoop(pk, k, selected, cnt, d, vd) ==
    IF k > Len(pk) THEN selected
    ELSE IF Overlaps(SegmentStart(pk[k], d), SegmentEnd(pk[k], d, vd), selected)
         THEN SelectLoop(pk, k + 1, selected, cnt, d, vd)
         ELSE LET accepted == Append(selected, NewSegment(pk[k], d, vd))
              IN  IF Len(accepted) >= cnt THEN accepted
                  ELSE SelectLoop(pk, k + 1, accepted, cnt, d, vd)

\* x placed behind every element of s that does not start after it: the step
\* of a stable ascending sort by start.
InsertByStart(x, s) ==
    LET n == Cardinality({i \in 1..Len(s) : s[i].start <= x.start})
    IN  SubSeq(s, 1, n) \o <<x>> \o SubSeq(s, n + 1, Len(s))

\* selectedSegments.sort((a, b) => a.start - b.start)
RECURSIVE SortByStart(_)
SortByStart(s) ==
    IF s = <<>> THEN <<>>
    ELSE InsertByStart(Last(s), SortByStart(Front(s)))

\* The moments the sampling loop has collected at the times T with the
\* scores sc: strictly increasing times, motion still 0.
SampledMoments(T, sc) ==
    [i \in 1..Cardinality(T) |->
        [time |-> Ascending(T)[i], score |-> sc[i], motion |-> 0]]

\* The input of scenario A: scores 10,10,10,90,10,10 at times 0..5.
ScenarioAMoments ==
    [i \in 1..6 |->
        [time |-> i - 1, score |-> IF i = 4 THEN 90 ELSE 10, motion |-> 0]]

ShortsIdle ==
    /\ moments = <<>> /\ videoDuration = 0 /\ count = 0 /\ duration = 0
    /\ peaks = <<>> /\ selectedSegments = <<>> /\ bestMoments = <<>>
    /\ shortsPc = "idle"

InitShorts ==
    /\ \/ /\ videoDuration \in 1..MaxDuration
          /\ \E T \in SUBSET (0..videoDuration - 1) :
                 /\ Cardinality(T) <= MaxSamples
                 /\ \E sc \in [1..Cardinality(T) -> Scores] :
                        moments = SampledMoments(T, sc)
          /\ count \in 1..MaxCount
          /\ duration \in {2 * h : h \in 0..MaxHalfDuration}
       \/ /\ videoDuration \in 5..7
          /\ moments = ScenarioAMoments
          /\ count = 1
          /\ duration = 2
    /\ peaks = <<>> /\ selectedSegments = <<>> /\ bestMoments = <<>>
    /\ shortsPc = "sampled"

\* Lines 53-91 of findBestMoments: motion, peaks, the greedy pass, the sort.
FindBestMoments ==
    /\ shortsPc = "sampled"
    /\ LET ms == CalcMotion(moments)
           pk == FindPeaks(ms, count)
           sel == SelectLoop(pk, 1, <<>>, count, duration, videoDuration)
       IN  /\ moments' = ms
           /\ peaks' = pk
           /\ selectedSegments' = sel
           /\ bestMoments' = SortByStart(sel)
    /\ shortsPc' = "done"
    /\ UNCHANGED <<videoDuration, count, duration>>
    /\ UNCHANGED <<scenesVars, audioVars, paletteVars, pacingVars,
                   frameVars, seekVars, particleVars, enhanceVars>>

(***************************************************************************)
(* AIVideoProcessor.detectScenes.                                          *)
(***************************************************************************)

SceneChangedInclusive(brightnessChange, colorChange) ==
    brightnessChange >= SceneThreshold \/ colorChange >= SceneThreshold

\* if (brightnessChange > threshold || colorChange > threshold)
SceneChanged(brightnessChange, colorChange) ==
    brightnessChange > SceneThreshold \/ colorChange > SceneThreshold

SceneIntensityBrightnessOnly(brightnessChange, colorChange) == brightnessChange

\* intensity: brightnessChange + colorChange
SceneIntensity(brightnessChange, colorChange) == brightnessChange + colorChange

\* The events pushed by the iterations i = 1 .. n - 1 of the loop (the frames
\* kf[2] .. kf[n] of the 1-based sequence).
RECURSIVE ScenesUpTo(_, _)
ScenesUpTo(kf, n) ==
    IF n < 2 THEN <<>>
    ELSE LET prev == kf[n - 1]
             curr == kf[n]
             brightnessChange == Abs(curr.brightness - prev.brightness)
             colorChange == Abs(curr.colorfulness - prev.colorfulness)
         IN  IF SceneChanged(brightnessChange, colorChange)
             THEN Append(ScenesUpTo(kf, n - 1),
                         [time |-> curr.time, type |-> "scene_change",
                          intensity |-> SceneIntensity(brightnessChange,
                                                       colorChange)])
             ELSE ScenesUpTo(kf, n - 1)

\* The key frames a sampling loop has collected at the times T: strictly
\* increasing times.
SampledFrames(T, b, c) ==
    [i \in 1..Cardinality(T) |->
        [time |-> Ascending(T)[i], brightness |-> b[i],
         colorfulness |-> c[i]]]

ScenesIdle == keyFrames = <<>> /\ scenes = <<>> /\ scenesPc = "idle"

InitScenes ==
    /\ \E T \in SUBSET (0..MaxFrameTime) :
           /\ Cardinality(T) <= MaxFrames
           /\ \E b \in [1..Cardinality(T) -> FrameValues],
                 c \in [1..Cardinality(T) -> FrameValues] :
                  keyFrames = SampledFrames(T, b, c)
    /\ scenes = <<>>
    /\ scenesPc = "sampled"

\* detectScenes(keyFrames)
DetectScenes ==
    /\ scenesPc = "sampled"
    /\ scenes' = ScenesUpTo(keyFrames, Len(keyFrames))
    /\ scenesPc' = "done"
    /\ UNCHANGED keyFrames
    /\ UNCHANGED <<shortsVars, audioVars, paletteVars, pacingVars,
                   frameVars, seekVars, particleVars, enhanceVars>>

(***************************************************************************)
(* AudioProcessor.analyzeAudio: the sampling loop and the return.          *)
(***************************************************************************)

SampleTimeOneLate(i) == i + 1

\* const time = i / sampleRate, in ticks of 1 / sampleRate.
SampleTime(i) == i

IsSilentInclusive(average) == average <= SilenceThreshold

\* if (average < silenceThreshold)
IsSilent(average) == average < SilenceThreshold

RECURSIVE TotalDuration(_)
\* silentSegments.reduce((sum, s) => sum + s.duration, 0)
TotalDuration(segs) ==
    IF segs = <<>> THEN 0
    ELSE TotalDuration(Front(segs)) + Last(segs).duration

LongEnoughInclusive(s) == s.duration >= MinSilenceTicks

\* s => s.duration > 0.5
LongEnough(s) == s.duration > MinSilenceTicks

AudioReturnValueOfFiltered(segs, loud) ==
    [silentSegments |-> SelectSeq(segs, LongEnough),
     loudSegments |-> loud,
     totalSilence |-> TotalDuration(SelectSeq(segs, LongEnough))]

\* The object analyzeAudio returns.
AudioReturnValue(segs, loud) ==
    [silentSegments |-> SelectSeq(segs, LongEnough),
     loudSegments |-> loud,
     totalSilence |-> TotalDuration(segs)]

AudioIdle ==
    /\ audioLevels = <<>> /\ audioIndex = 0 /\ currentSilentStart = Null
    /\ silentSegments = <<>> /\ loudSegments = <<>>
    /\ audioResult = AudioReturnValue(<<>>, <<>>) /\ audioPc = "idle"

\* The levels of scenario B, one per second: 50, 50, 10, 10, 10, 60.
ScenarioBSeconds == <<50, 50, 10, 10, 10, 60>>

\* Scenario B as the loop samples it, every tick of 0.1 s from 0 s to 5 s:
\* the level stated for a second holds until the next second.
ScenarioBLevels == [i \in 1..51 |-> ScenarioBSeconds[(i - 1) \div 10 + 1]]

InitAudio ==
    /\ \/ \E n \in 0..MaxAudioSamples : audioLevels \in [1..n -> Levels]
       \/ audioLevels = ScenarioBLevels
    /\ audioIndex = 0
    /\ currentSilentStart = Null
    /\ silentSegments = <<>>
    /\ loudSegments = <<>>
    /\ audioResult = AudioReturnValue(<<>>, <<>>)
    /\ audioPc = "sampling"

AudioSeekedKeepingRunOpen ==
    /\ audioPc = "sampling"
    /\ audioIndex < Len(audioLevels)
    /\ LET time == SampleTime(audioIndex)
           average == audioLevels[audioIndex + 1]
       IN  IF IsSilent(average)
           THEN /\ currentSilentStart' =
                      IF currentSilentStart = Null THEN time
                      ELSE currentSilentStart
                /\ UNCHANGED <<silentSegments, loudSegments>>
           ELSE /\ IF currentSilentStart # Null
                   THEN /\ silentSegments' =
                              Append(silentSegments,
                                     [start |-> currentSilentStart,
                                      end |-> time,
                                      duration |-> time - currentSilentStart])
                        /\ UNCHANGED currentSilentStart
                   ELSE UNCHANGED <<silentSegments, currentSilentStart>>
                /\ loudSegments' =
                      IF average > LoudThreshold
                      THEN Append(loudSegments,
                                  [time |-> time, level |-> average])
                      ELSE loudSegments
    /\ audioIndex' = audioIndex + 1
    /\ UNCHANGED <<audioLevels, audioResult, audioPc>>
    /\ UNCHANGED <<shortsVars, scenesVars, paletteVars, pacingVars,
                   frameVars, seekVars, particleVars, enhanceVars>>

\* One iteration of the loop: the seek to sample i and its onseeked callback.
AudioSeeked ==
    /\ audioPc = "sampling"
    /\ audioIndex < Len(audioLevels)
    /\ LET time == SampleTime(audioIndex)
           average == audioLevels[audioIndex + 1]
       IN  IF IsSilent(average)
           THEN /\ currentSilentStart' =
                      IF currentSilentStart = Null THEN time
                      ELSE currentSilentStart
                /\ UNCHANGED <<silentSegments, loudSegments>>
           ELSE /\ IF currentSilentStart # Null
                   THEN /\ silentSegments' =
                              Append(silentSegments,
                                     [start |-> currentSilentStart,
                                      end |-> time,
                                      duration |-> time - currentSilentStart])
                        /\ currentSilentStart' = Null
                   ELSE UNCHANGED <<silentSegments, currentSilentStart>>
                /\ loudSegments' =
                      IF average > LoudThreshold
                      THEN Append(loudSegments,
                                  [time |-> time, level |-> average])
                      ELSE loudSegments
    /\ audioIndex' = audioIndex + 1
    /\ UNCHANGED <<audioLevels, audioResult, audioPc>>
    /\ UNCHANGED <<shortsVars, scenesVars, paletteVars, pacingVars,
                   frameVars, seekVars, particleVars, enhanceVars>>

AudioReturnFlushing ==
    /\ audioPc = "sampling"
    /\ audioIndex >= Len(audioLevels)
    /\ audioResult' =
          AudioReturnValue(
              IF currentSilentStart # Null
              THEN Append(silentSegments,
                          [start |-> currentSilentStart,
                           end |-> SampleTime(audioIndex),
                           duration |->
                               SampleTime(audioIndex) - currentSilentStart])
              ELSE silentSegments,
              loudSegments)
    /\ audioPc' = "done"
    /\ UNCHANGED <<audioLevels, audioIndex, currentSilentStart,
                   silentSegments, loudSegments>>
    /\ UNCHANGED <<shortsVars, scenesVars, paletteVars, pacingVars,
                   frameVars, seekVars, particleVars, enhanceVars>>

\* The loop has ended: return { silentSegments: ..filter.., loudSegments,
\* totalSilence }.
AudioReturn ==
    /\ audioPc = "sampling"
    /\ audioIndex >= Len(audioLevels)
    /\ audioResult' = AudioReturnValue(silentSegments, loudSegments)
    /\ audioPc' = "done"
    /\ UNCHANGED <<audioLevels, audioIndex, currentSilentStart,
                   silentSegments, loudSegments>>
    /\ UNCHANGED <<shortsVars, scenesVars, paletteVars, pacingVars,
                   frameVars, seekVars, particleVars, enhanceVars>>

(***************************************************************************)
(* AIVideoProcessor.quantizeColors: k-means over the sampled pixels.       *)
(***************************************************************************)

\* The colours a sampled pixel takes.
Colors == {<<0, 0, 0>>, <<255, 255, 255>>, <<255, 0, 0>>, <<0, 0, 255>>}

\* The square of dist; Math.sqrt is increasing and keeps distinct sums of
\* squares of this size distinct, so dist < minDist compares the squares.
Dist2(p, c) ==
    (p[1] - c[1]) * (p[1] - c[1]) + (p[2] - c[2]) * (p[2] - c[2])
        + (p[3] - c[3]) * (p[3] - c[3])

NearestIdxLastOnTie(p, cents) ==
    IF cents = <<>> THEN 1
    ELSE CHOOSE i \in 1..Len(cents) :
             \A j \in 1..Len(cents) :
                 /\ Dist2(p, cents[i]) <= Dist2(p, cents[j])
                 /\ j > i => Dist2(p, cents[j]) > Dist2(p, cents[i])

\* minDist = Infinity, minIdx = 0; centroids.forEach: if (dist < minDist)
\* { minDist = dist; minIdx = idx }: the first centroid at the least
\* distance, and index 0 (here 1) when there is no centroid.
NearestIdx(p, cents) ==
    IF cents = <<>> THEN 1
    ELSE CHOOSE i \in 1..Len(cents) :
             \A j \in 1..Len(cents) :
                 /\ Dist2(p, cents[i]) <= Dist2(p, cents[j])
                 /\ j < i => Dist2(p, cents[j]) > Dist2(p, cents[i])

\* The pixels of px assigned to cluster c, in pixel order.
RECURSIVE AssignedTo(_, _, _)
AssignedTo(px, cents, c) ==
    IF px = <<>> THEN <<>>
    ELSE LET rest == AssignedTo(Front(px), cents, c)
         IN  IF NearestIdx(Last(px), cents) = c
             THEN Append(rest, Last(px))
             ELSE rest

AssignClustersPerCentroid(px, cents, k) ==
    [c \in 1..Len(cents) |-> AssignedTo(px, cents, c)]

\* const clusters = Array(k).fill().map(() => []); pixels.forEach(...)
AssignClusters(px, cents, k) == [c \in 1..k |-> AssignedTo(px, cents, c)]

\* Math.round(sum / n) for sum >= 0, n > 0: halves round up.
RoundedMean(sum, n) == (2 * sum + n) \div (2 * n)

RECURSIVE ComponentSum(_, _)
\* cluster.reduce((acc, p) => [acc[0] + p[0], ...], [0, 0, 0]), one component
ComponentSum(cluster, x) ==
    IF cluster = <<>> THEN 0
    ELSE ComponentSum(Front(cluster), x) + Last(cluster)[x]

\* if (cluster.length === 0) return [0, 0, 0]; else the rounded means
NewCentroid(cluster) ==
    IF cluster = <<>> THEN <<0, 0, 0>>
    ELSE <<RoundedMean(ComponentSum(cluster, 1), Len(cluster)),
           RoundedMean(ComponentSum(cluster, 2), Len(cluster)),
           RoundedMean(ComponentSum(cluster, 3), Len(cluster))>>

\* centroids = clusters.map(cluster => ...)
UpdateCentroids(cl) == [c \in 1..Len(cl) |-> NewCentroid(cl[c])]

PaletteIdle ==
    /\ pixels = <<>> /\ paletteK = 0 /\ centroids = <<>> /\ clusters = <<>>
    /\ paletteIter = 0 /\ palettePc = "idle"

\* quantizeColors up to the loop: the sampled pixels and
\* centroids = pixels.slice(0, k).
InitPalette ==
    /\ \E n \in 0..MaxPixels : pixels \in [1..n -> Colors]
    /\ paletteK \in 1..MaxK
    /\ centroids = Slice(pixels, paletteK)
    /\ clusters = <<>>
    /\ paletteIter = 0
    /\ palettePc = "clustering"

\* One iteration of for (iter = 0; iter < 10; iter++): assign, then update.
KMeansIterate ==
    /\ palettePc = "clustering"
    /\ paletteIter < MaxIterations
    /\ clusters' = AssignClusters(pixels, centroids, paletteK)
    /\ centroids' = UpdateCentroids(clusters')
    /\ paletteIter' = paletteIter + 1
    /\ UNCHANGED <<pixels, paletteK, palettePc>>
    /\ UNCHANGED <<shortsVars, scenesVars, audioVars, pacingVars,
                   frameVars, seekVars, particleVars, enhanceVars>>

\* return centroids
QuantizeReturn ==
    /\ palettePc = "clustering"
    /\ paletteIter >= MaxIterations
    /\ palettePc' = "done"
    /\ UNCHANGED <<pixels, paletteK, centroids, clusters, paletteIter>>
    /\ UNCHANGED <<shortsVars, scenesVars, audioVars, pacingVars,
                   frameVars, seekVars, particleVars, enhanceVars>>

(***************************************************************************)
(* AIVideoProcessor.suggestCuts and generateAutoPacing.  Confidences,      *)
(* thresholds and speeds are in hundredths; the key frames carry           *)
(* edgeIntensity and are one time unit apart (time = (i / sampleCount) *   *)
(* duration).                                                              *)
(***************************************************************************)

EdgeValues == {5, 15, 30}
JumpSizes == {40, 60, 75, 110}

CutIntensity == 50          \* if (scene.intensity > 50)
FullConfidence == 100       \* Math.min(scene.intensity / 100, 1)
WindowSize == 5             \* keyFrames.slice(i, i + 5), / 5
LowMotionThreshold == 10    \* if (avgEdge < 10)
LowMotionConfidence == 70   \* confidence: 0.7
SlowEdgeThreshold == 15     \* if (frame.edgeIntensity < 15)
DefaultDuration == 1        \* cut.duration || 1
Undefined == -2             \* the value undefined, as a threshold
NoRange == <<>>             \* the value undefined, as a speedRange

SceneReason == "Major scene change"
LowMotionReason == "Low motion segment (potential silence)"

SceneCutsUncapped(sc) ==
    LET major == SelectSeq(sc, LAMBDA scene : scene.intensity > CutIntensity)
    IN  [k \in 1..Len(major) |->
            [time |-> major[k].time, reason |-> SceneReason,
             confidence |-> major[k].intensity]]

\* scenes.forEach(scene => { if (scene.intensity > 50) cuts.push(...) })
RECURSIVE SceneCuts(_)
SceneCuts(sc) ==
    IF sc = <<>> THEN <<>>
    ELSE LET scene == Last(sc)
         IN  IF scene.intensity > CutIntensity
             THEN Append(SceneCuts(Front(sc)),
                         [time |-> scene.time, reason |-> SceneReason,
                          confidence |-> Min(scene.intensity, FullConfidence)])
             ELSE SceneCuts(Front(sc))

\* segment.reduce((sum, f) => sum + f.edgeIntensity, 0) for the window that
\* starts at the frame s (1-based)
RECURSIVE EdgeSum(_, _, _)
EdgeSum(kf, s, len) ==
    IF len = 0 THEN 0
    ELSE EdgeSum(kf, s, len - 1) + kf[s + len - 1].edgeIntensity

\* avgEdge < 10, with avgEdge = sum / 5
LowMotion(kf, s) == EdgeSum(kf, s, WindowSize) < LowMotionThreshold * WindowSize

LastWindowStartAtEnd(kf) == Len(kf) - WindowSize + 1

\* for (let i = 0; i < keyFrames.length - 5; i++): the last i is
\* keyFrames.length - 6, the frame keyFrames.length - 5 of the 1-based
\* sequence.
LastWindowStart(kf) == Len(kf) - WindowSize

LowMotionCut(kf, s) ==
    [time |-> kf[s].time,
     duration |-> kf[s + WindowSize - 1].time - kf[s].time,
     reason |-> LowMotionReason,
     confidence |-> LowMotionConfidence]

\* The low-motion cuts pushed by the windows that start at the frames 1 .. s.
RECURSIVE LowMotionCutsUpTo(_, _)
LowMotionCutsUpTo(kf, s) ==
    IF s < 1 THEN <<>>
    ELSE IF LowMotion(kf, s)
         THEN Append(LowMotionCutsUpTo(kf, s - 1), LowMotionCut(kf, s))
         ELSE LowMotionCutsUpTo(kf, s - 1)

\* suggestCuts(keyFrames, scenes): the scene cuts, then the low-motion cuts
SuggestCutsOf(kf, sc) ==
    SceneCuts(sc) \o LowMotionCutsUpTo(kf, LastWindowStart(kf))

\* const pacingMap = { slow: ..., balanced: ..., fast: ... }
PacingMap ==
    [slow     |-> [threshold |-> 60, speedRange |-> <<90, 110>>],
     balanced |-> [threshold |-> 70, speedRange |-> <<90, 120>>],
     fast     |-> [threshold |-> 80, speedRange |-> <<100, 150>>]]

\* The names every object literal inherits from Object.prototype: the value
\* of pacingMap[name] is a function or an object, which is truthy and has
\* neither a threshold nor a speedRange.
InheritedNames == {"constructor"}

\* The modes a caller passes.
Modes == {"slow", "balanced", "fast", "cinematic"} \cup InheritedNames

ConfigOwnOnly(m) ==
    IF m \in DOMAIN PacingMap THEN PacingMap[m] ELSE PacingMap.balanced

\* const config = pacingMap[mode] || pacingMap.balanced
Config(m) ==
    IF m \in DOMAIN PacingMap THEN PacingMap[m]
    ELSE IF m \in InheritedNames
         THEN [threshold |-> Undefined, speedRange |-> NoRange]
         ELSE PacingMap.balanced

AboveThresholdInclusive(confidence, threshold) ==
    threshold # Undefined /\ confidence >= threshold

\* cut.confidence > config.threshold; a comparison with undefined is false
AboveThreshold(confidence, threshold) ==
    threshold # Undefined /\ confidence > threshold

\* if (cut.confidence > config.threshold) pacing.cuts.push(cut.time)
RECURSIVE PacingCuts(_, _)
PacingCuts(sugg, config) ==
    IF sugg = <<>> THEN <<>>
    ELSE IF AboveThreshold(Last(sugg).confidence, config.threshold)
         THEN Append(PacingCuts(Front(sugg), config), Last(sugg).time)
         ELSE PacingCuts(Front(sugg), config)

\* cut.reason.includes('silence')
IncludesSilence(reason) == reason = LowMotionReason

RemovalEndAlwaysDefault(cut) == cut.time + DefaultDuration

\* cut.time + (cut.duration || 1): a missing duration and the duration 0 are
\* falsy
RemovalEnd(cut) ==
    IF "duration" \in DOMAIN cut /\ cut.duration # 0
    THEN cut.time + cut.duration
    ELSE cut.time + DefaultDuration

\* if (cut.reason.includes('silence')) pacing.removeSegments.push(...)
RECURSIVE RemoveSegments(_)
RemoveSegments(sugg) ==
    IF sugg = <<>> THEN <<>>
    ELSE IF IncludesSilence(Last(sugg).reason)
         THEN Append(RemoveSegments(Front(sugg)),
                     [start |-> Last(sugg).time, end |-> RemovalEnd(Last(sugg))])
         ELSE RemoveSegments(Front(sugg))

IsSlowByLaterSample(kf, i) == kf[i + 1].edgeIntensity < SlowEdgeThreshold

\* if (frame.edgeIntensity < 15), frame = keyFrames[i]
IsSlow(kf, i) == kf[i].edgeIntensity < SlowEdgeThreshold

\* The entries pushed for the pairs (1, 2) .. (n, n + 1) of the 1-based
\* sequence.
RECURSIVE SpeedAdjustmentsUpTo(_, _, _)
SpeedAdjustmentsUpTo(kf, config, n) ==
    IF n < 1 THEN <<>>
    ELSE IF IsSlow(kf, n)
         THEN Append(SpeedAdjustmentsUpTo(kf, config, n - 1),
                     [start |-> kf[n].time, end |-> kf[n + 1].time,
                      speed |-> config.speedRange[2]])
         ELSE SpeedAdjustmentsUpTo(kf, config, n - 1)

\* config.speedRange[1] is evaluated for the first slow pair: a TypeError
\* when speedRange is undefined.
SpeedThrows(kf, config) ==
    /\ config.speedRange = NoRange
    /\ \E i \in 1..(Len(kf) - 1) : IsSlow(kf, i)

\* The key frames of the pacing pipeline: brightness rises by size at the
\* frame jump (no rise when jump = 0), colorfulness stays 0.
PacingFrames(n, edges, jump, size) ==
    [i \in 1..n |->
        [time |-> i - 1,
         brightness |-> IF jump # 0 /\ i >= jump THEN size ELSE 0,
         colorfulness |-> 0,
         edgeIntensity |-> edges[i]]]

EmptyPacing == [cuts |-> <<>>, speedAdjustments |-> <<>>, removeSegments |-> <<>>]

PacingIdle ==
    /\ mode = "" /\ suggestedCuts = <<>> /\ pacing = EmptyPacing
    /\ pacingPc = "idle"

\* generateAutoPacing after the sampling loop of analyzeVideo.
InitPacing ==
    /\ \E n \in 0..MaxPacingFrames :
           \E edges \in [1..n -> EdgeValues], jump \in {0} \cup (2..n) :
               \E size \in (IF jump = 0 THEN {0} ELSE JumpSizes) :
                   keyFrames = PacingFrames(n, edges, jump, size)
    /\ scenes = <<>>
    /\ scenesPc = "sampled"
    /\ mode = ""
    /\ suggestedCuts = <<>>
    /\ pacing = EmptyPacing
    /\ pacingPc = "analyzing"

\* analysis.suggestedCuts = this.suggestCuts(analysis.keyFrames, analysis.scenes)
SuggestCuts ==
    /\ pacingPc = "analyzing"
    /\ scenesPc = "done"
    /\ suggestedCuts' = SuggestCutsOf(keyFrames, scenes)
    /\ pacingPc' = "analyzed"
    /\ UNCHANGED <<mode, pacing>>
    /\ UNCHANGED <<shortsVars, scenesVars, audioVars, paletteVars,
                   frameVars, seekVars, particleVars, enhanceVars>>

\* generateAutoPacing(videoElement, mode) from the pacing object on.
GenerateAutoPacing ==
    /\ pacingPc = "analyzed"
    /\ \E m \in Modes :
           /\ mode' = m
           /\ IF SpeedThrows(keyFrames, Config(m))
              THEN pacingPc' = "failed" /\ UNCHANGED pacing
              ELSE /\ pacing' =
                        [cuts |-> PacingCuts(suggestedCuts, Config(m)),
                         speedAdjustments |->
                             SpeedAdjustmentsUpTo(keyFrames, Config(m),
                                                  Len(keyFrames) - 1),
                         removeSegments |-> RemoveSegments(suggestedCuts)]
                   /\ pacingPc' = "done"
    /\ UNCHANGED suggestedCuts
    /\ UNCHANGED <<shortsVars, scenesVars, audioVars, paletteVars,
                   frameVars, seekVars, particleVars, enhanceVars>>

(***************************************************************************)
(* The frame statistics: ShortsGenerator.calculateInterestScore and        *)
(* calculateBrightness, AIVideoProcessor.analyzeFrame.  A statistic is the *)
(* quotient num / den of two integers, kept as the pair: 0 / 0 is NaN.     *)
(* colorfulness is kept as its square (Math.sqrt of NaN is NaN, of 0 is    *)
(* 0).                                                                     *)
(***************************************************************************)

\* a / b of two numbers
Quotient(a, b) == [num |-> a, den |-> b]
IsNaN(q) == q.num = 0 /\ q.den = 0
IsZero(q) == q.num = 0 /\ q.den # 0

SampleStride == 10      \* i += 40: every 10th pixel of the 4-byte pixels
EdgeDiff == 30          \* if (diff > 30) edgeCount++
VarianceScale == 1000   \* colorVariance / 1000
EdgeWeight == 100       \* edgeCount / 10, in thousandths

\* Math.abs(r - g) + Math.abs(g - b) + Math.abs(b - r)
ChannelSpread(p) == Abs(p[1] - p[2]) + Abs(p[2] - p[3]) + Abs(p[3] - p[1])

\* colorVariance over the pixels 1 .. n of the 1-based sequence: the loop
\* for (i = 0; i < data.length; i += 40)
RECURSIVE ColorVariance(_, _)
ColorVariance(img, n) ==
    IF n = 0 THEN 0
    ELSE ColorVariance(img, n - 1)
             + (IF (n - 1) % SampleStride = 0 THEN ChannelSpread(img[n]) ELSE 0)

\* Math.abs(data[i] - data[i + 4]): the red channels of two adjacent pixels
RedDiff(img, i) == Abs(img[i][1] - img[i + 1][1])

\* edgeCount over the pairs (1, 2) .. (n, n + 1)
RECURSIVE EdgeCount(_, _)
EdgeCount(img, n) ==
    IF n < 1 THEN 0
    ELSE EdgeCount(img, n - 1) + (IF RedDiff(img, n) > EdgeDiff THEN 1 ELSE 0)

\* return (colorVariance / 1000) + (edgeCount / 10)
CalculateInterestScore(img) ==
    Quotient(ColorVariance(img, Len(img))
                 + EdgeWeight * EdgeCount(img, Len(img) - 1),
             VarianceScale)

\* The sum of the channel x over the pixels.
RECURSIVE ChannelSum(_, _)
ChannelSum(img, x) ==
    IF img = <<>> THEN 0 ELSE ChannelSum(Front(img), x) + Last(img)[x]

\* sum += (r + g + b) / 3 over the pixels; return sum / (data.length / 4)
CalculateBrightness(img) ==
    Quotient(ChannelSum(img, 1) + ChannelSum(img, 2) + ChannelSum(img, 3),
             3 * Len(img))

Square(a) == a * a

\* edgeIntensity += diff over the pairs (1, 2) .. (n, n + 1)
RECURSIVE EdgeTotal(_, _)
EdgeTotal(img, n) ==
    IF n < 1 THEN 0 ELSE EdgeTotal(img, n - 1) + RedDiff(img, n)

\* analyzeFrame(imageData, time): brightness /= pixelCount; colorfulness =
\* Math.sqrt(...) of the channel averages; edgeIntensity /= pixelCount
AnalyzeFrameOf(img) ==
    LET pixelCount == Len(img)
        rSum == ChannelSum(img, 1)
        gSum == ChannelSum(img, 2)
        bSum == ChannelSum(img, 3)
    IN  [brightness |-> Quotient(rSum + gSum + bSum, 3 * pixelCount),
         colorfulnessSquared |->
             Quotient(Square(rSum - gSum) + Square(gSum - bSum)
                          + Square(bSum - rSum),
                      Square(pixelCount)),
         edgeIntensity |->
             Quotient(EdgeTotal(img, Len(img) - 1), pixelCount)]

\* The image of n pixels of the colour c, but for the pixel at odd (none
\* when odd = 0), which has the colour c2.
ImageOf(n, c, odd, c2) == [i \in 1..n |-> IF i = odd THEN c2 ELSE c]

NoMoment == [score |-> Quotient(0, 1), brightness |-> Quotient(0, 1)]
NoAnalysis ==
    [brightness |-> Quotient(0, 1), colorfulnessSquared |-> Quotient(0, 1),
     edgeIntensity |-> Quotient(0, 1)]

FrameIdle ==
    /\ imageData = <<>> /\ momentStats = NoMoment /\ momentPc = "idle"
    /\ frameAnalysis = NoAnalysis /\ framePc = "idle"

\* A frame has been captured: imageData = ctx.getImageData(...)
InitFrame ==
    /\ \E n \in 0..MaxImagePixels, c \in Colors, odd \in 0..MaxImagePixels,
          c2 \in Colors :
           /\ odd <= n
           /\ (n = 0 => c = <<0, 0, 0>>)
           /\ (odd = 0 => c2 = c)
           /\ (odd # 0 => c2 # c)
           /\ imageData = ImageOf(n, c, odd, c2)
    /\ momentStats = NoMoment
    /\ momentPc = "seeked"
    /\ frameAnalysis = NoAnalysis
    /\ framePc = "seeked"

\* The onseeked callback of findBestMoments: score and brightness of the
\* pushed moment.
CaptureMoment ==
    /\ momentPc = "seeked"
    /\ momentStats' = [score |-> CalculateInterestScore(imageData),
                       brightness |-> CalculateBrightness(imageData)]
    /\ momentPc' = "captured"
    /\ UNCHANGED <<imageData, frameAnalysis, framePc>>
    /\ UNCHANGED <<shortsVars, scenesVars, audioVars, paletteVars,
                   pacingVars, seekVars, particleVars, enhanceVars>>

\* The onseeked callback of analyzeVideo: frameAnalysis =
\* this.analyzeFrame(imageData, time)
AnalyzeFrame ==
    /\ framePc = "seeked"
    /\ frameAnalysis' = AnalyzeFrameOf(imageData)
    /\ framePc' = "analyzed"
    /\ UNCHANGED <<imageData, momentStats, momentPc>>
    /\ UNCHANGED <<shortsVars, scenesVars, audioVars, paletteVars,
                   pacingVars, seekVars, particleVars, enhanceVars>>

(***************************************************************************)
(* The sampling loops of findBestMoments, analyzeVideo, analyzeAudio and   *)
(* the single seek of extractColorPalette.  Times are in twentieths of a   *)
(* second and the duration is a number of half seconds.  A seek sets       *)
(* currentTime and installs the handler; its seeked event fires later, in  *)
(* the order the seeks were issued, and runs the handler that is installed *)
(* at that moment.  The continuation of the awaiting loop is a microtask:  *)
(* it runs before the next event fires.                                    *)
(***************************************************************************)

HalfSecond == 10        \* twentieths of a second
ShortsStep == 4         \* time = i / sampleRate, sampleRate = 5
AudioStep == 2          \* time = i / sampleRate, sampleRate = 10
SampleCap == 50         \* Math.min(50, Math.floor(duration * 2))

\* The operations that seek the shared video element, and analyzeAudio,
\* which seeks a video element of its own.
SharedOps == {"findBestMoments", "analyzeVideo", "extractColorPalette"}
SamplingOps == SharedOps \cup {"analyzeAudio"}

\* The number of seeks the operation issues for the duration d.
TotalSamples(op, d) ==
    IF op = "findBestMoments" THEN d \div ShortsStep
    ELSE IF op = "analyzeVideo" THEN Min(SampleCap, d \div HalfSecond)
    ELSE IF op = "analyzeAudio" THEN (d + AudioStep - 1) \div AudioStep
    ELSE 1

SeekTimeStuck(op, i, d) == 0

\* The time of the seek i (from 0) of the operation.
SeekTime(op, i, d) ==
    IF op = "findBestMoments" THEN i * ShortsStep
    ELSE IF op = "analyzeVideo" THEN (i * d) \div TotalSamples(op, d)
    ELSE IF op = "analyzeAudio" THEN i * AudioStep
    ELSE d \div 2

NoHandler == [owner |-> "none", time |-> 0]

NotCalled == [pc |-> "absent", issued |-> 0, samples |-> <<>>]
Ready == [pc |-> "ready", issued |-> 0, samples |-> <<>>]

SeekIdle ==
    /\ seekDuration = 0 /\ currentTime = 0 /\ frameTime = 0
    /\ onseeked = NoHandler /\ seekedEvents = <<>>
    /\ samplers = [op \in SamplingOps |-> NotCalled]

\* The operations of S are about to be called on a video of some duration
\* that shows the frame at its start or at its end.
InitSampling(S) ==
    /\ \E h \in 0..MaxHalfSeconds : seekDuration = h * HalfSecond
    /\ currentTime \in {0, seekDuration}
    /\ frameTime = currentTime
    /\ onseeked = NoHandler
    /\ seekedEvents = <<>>
    /\ samplers = [op \in SamplingOps |-> IF op \in S THEN Ready ELSE NotCalled]

\* One sampling loop on its video element.
InitOneSampler ==
    \E op \in {"findBestMoments", "analyzeVideo", "analyzeAudio"} :
        InitSampling({op})

\* Two or three operations on the shared video element.
InitSharedSamplers ==
    \E S \in SUBSET SharedOps : Cardinality(S) >= 2 /\ InitSampling(S)

\* videoElement.currentTime = time; await new Promise(resolve => {
\* videoElement.onseeked = () => {...} }): the seek issued next by op, or the
\* return of op when its loop is over.
IssueOrReturn(op, sm) ==
    IF sm[op].issued < TotalSamples(op, seekDuration)
    THEN LET time == SeekTime(op, sm[op].issued, seekDuration)
         IN  /\ currentTime' = time
             /\ onseeked' = [owner |-> op, time |-> time]
             /\ seekedEvents' = Append(Tail(seekedEvents), time)
             /\ samplers' = [sm EXCEPT ![op].pc = "waiting",
                                       ![op].issued = @ + 1]
    ELSE /\ samplers' = [sm EXCEPT ![op].pc = "returned"]
         /\ seekedEvents' = Tail(seekedEvents)
         /\ UNCHANGED <<currentTime, onseeked>>

\* The call of a sampling operation, up to its first await.
CallSampler(op) ==
    /\ samplers[op].pc = "ready"
    /\ IF TotalSamples(op, seekDuration) > 0
       THEN LET time == SeekTime(op, 0, seekDuration)
            IN  /\ currentTime' = time
                /\ onseeked' = [owner |-> op, time |-> time]
                /\ seekedEvents' = Append(seekedEvents, time)
                /\ samplers' = [samplers EXCEPT ![op].pc = "waiting",
                                                ![op].issued = 1]
       ELSE /\ samplers' = [samplers EXCEPT ![op].pc = "returned"]
            /\ UNCHANGED <<currentTime, onseeked, seekedEvents>>
    /\ UNCHANGED <<seekDuration, frameTime>>
    /\ UNCHANGED <<shortsVars, scenesVars, audioVars, paletteVars,
                   pacingVars, frameVars, particleVars, enhanceVars>>

CallSamplers == \E op \in SamplingOps : CallSampler(op)

\* A seeked event fires: the element shows the frame of the oldest pending
\* seek, the installed handler captures it and appends a sample under the
\* time of its closure, resolve() wakes its operation if that still waits,
\* and the operation runs to its next await or to its return.
Seeked ==
    /\ seekedEvents # <<>>
    /\ frameTime' = Head(seekedEvents)
    /\ IF onseeked = NoHandler
       THEN /\ seekedEvents' = Tail(seekedEvents)
            /\ UNCHANGED <<currentTime, onseeked, samplers>>
       ELSE LET op == onseeked.owner
                captured == [samplers EXCEPT ![op].samples =
                                Append(@, [time |-> onseeked.time,
                                           frame |-> frameTime'])]
            IN  IF samplers[op].pc = "waiting"
                THEN IssueOrReturn(op, captured)
                ELSE /\ samplers' = captured
                     /\ seekedEvents' = Tail(seekedEvents)
                     /\ UNCHANGED <<currentTime, onseeked>>
    /\ UNCHANGED seekDuration
    /\ UNCHANGED <<shortsVars, scenesVars, audioVars, paletteVars,
                   pacingVars, frameVars, particleVars, enhanceVars>>

(***************************************************************************)
(* MotionGraphicsEngine.renderParticles.  life is in tenths; a particle is *)
(* its life, y and vy (x, size, rotation and colour play no part in its    *)
(* removal).  The canvas height is taken as 0, and maxParticles, which the *)
(* density selects (20, 50 or 100), is scaled down to 1..MaxParticles.     *)
(***************************************************************************)

FullLife == 10          \* life: 1.0
StartY == 50            \* y: this.canvas.height + 50
MinY == -50             \* particle.y < -50

\* vy: -Math.random() * 3 - 1, scaled
Velocities == {-40, -70}
\* deltaTime * 0.3, in tenths of life
Decays == {3, 5}

\* createParticle(effect, color)
CreateParticle(vy) == [life |-> FullLife, y |-> StartY, vy |-> vy]

\* updateParticle(particle, effect, deltaTime), with decay = deltaTime * 0.3
UpdateParticle(p, decay) ==
    [p EXCEPT !.y = p.y + p.vy, !.life = p.life - decay]

\* if (particle.life <= 0 || particle.y < -50)
IsDead(p) == p.life <= 0 \/ p.y < MinY

\* this.particles.splice(index, 1), index from 0
Splice(ps, index) == SubSeq(ps, 1, index) \o SubSeq(ps, index + 2, Len(ps))

\* this.particles.forEach((particle, index) => {...}) from the index on:
\* forEach visits the indices below the length it read at the start, and
\* only those the array still has.  counts[slot] counts the updates of the
\* particle that stood at slot when the pass started.
RECURSIVE ForEachParticle(_, _, _, _, _)
ForEachParticle(ps, index, len, decay, counts) ==
    IF index >= len \/ index >= Len(ps)
    THEN [particles |-> ps, updates |-> counts]
    ELSE LET p == UpdateParticle(ps[index + 1], decay)
             updated == [ps EXCEPT ![index + 1] = p]
             counted == [counts EXCEPT ![p.slot] = @ + 1]
         IN  IF IsDead(p)
             THEN ForEachParticle(Splice(updated, index), index + 1, len,
                                  decay, counted)
             ELSE ForEachParticle(updated, index + 1, len, decay, counted)

\* The particle p marked with the slot it has when the pass starts.
Slotted(ps) ==
    [i \in 1..Len(ps) |->
        [life |-> ps[i].life, y |-> ps[i].y, vy |-> ps[i].vy, slot |-> i]]

Unslotted(ps) ==
    [i \in 1..Len(ps) |-> [life |-> ps[i].life, y |-> ps[i].y, vy |-> ps[i].vy]]

\* No MotionGraphicsEngine was constructed.
ParticlesIdle == enginePc = "absent" /\ particles = <<>> /\ passUpdates = <<>>

\* this.particles = [] of the constructor
InitParticles == enginePc = "ready" /\ particles = <<>> /\ passUpdates = <<>>

\* renderParticles(effect, density, color, deltaTime): the particles created
\* up to maxParticles, then the update pass.
RenderParticles ==
    /\ enginePc = "ready"
    /\ UNCHANGED enginePc
    /\ \E maxParticles \in 1..MaxParticles, decay \in Decays :
           \E vys \in [1..Max(0, maxParticles - Len(particles)) -> Velocities] :
               LET created ==
                       particles \o [i \in 1..Len(vys) |-> CreateParticle(vys[i])]
                   pass == ForEachParticle(Slotted(created), 0, Len(created),
                                           decay,
                                           [i \in 1..Len(created) |-> 0])
               IN  /\ particles' = Unslotted(pass.particles)
                   /\ passUpdates' = pass.updates
    /\ UNCHANGED <<shortsVars, scenesVars, audioVars, paletteVars,
                   pacingVars, frameVars, seekVars, enhanceVars>>

(***************************************************************************)
(* loadVideo, processFullVideo and AudioProcessor.enhanceAudio.  The page  *)
(* has one AudioProcessor and passes it the element originalVideo.  The    *)
(* audio context refuses a second source for an element that has one       *)
(* (InvalidStateError); processFullVideo catches it and goes on.           *)
(***************************************************************************)

NoFile == 0             \* let currentVideoFile = null

NoSource == "null"      \* this.sourceNode = null

Elements == {"originalVideo"}

Files == 1..MaxFiles

\* enhanceAudio(videoElement, settings) up to the source node: what the
\* call leaves in the processor and in the element, and its outcome.
EnhanceAudio(videoElement) ==
    IF sourceNode # NoSource
    THEN [sourceNode |-> sourceNode, attached |-> attached,
          createCalls |-> createCalls, outcome |-> "reused"]
    ELSE LET calls == [createCalls EXCEPT ![videoElement] = @ + 1]
         IN  IF videoElement \in attached
             THEN [sourceNode |-> sourceNode, attached |-> attached,
                   createCalls |-> calls, outcome |-> "threw"]
             ELSE [sourceNode |-> videoElement,
                   attached |-> attached \cup {videoElement},
                   createCalls |-> calls, outcome |-> "created"]

\* The state of the AudioProcessor constructor, no file loaded.
NoEnhancement ==
    /\ currentVideoFile = NoFile
    /\ sourceNode = NoSource
    /\ attached = {}
    /\ createCalls = [el \in Elements |-> 0]
    /\ enhanceLog = <<>>

\* The page was not opened.
EnhanceIdle == pagePc = "absent" /\ NoEnhancement

\* audioProcessor = new AudioProcessor() of DOMContentLoaded
InitEnhance == pagePc = "ready" /\ NoEnhancement

\* loadVideo(file)
LoadVideo ==
    /\ pagePc = "ready"
    /\ \E file \in Files : currentVideoFile' = file
    /\ sourceNode' = NoSource
    /\ UNCHANGED <<pagePc, attached, createCalls, enhanceLog>>
    /\ UNCHANGED <<shortsVars, scenesVars, audioVars, paletteVars, pacingVars,
                   frameVars, seekVars, particleVars>>

\* processFullVideo(), as far as the audio enhancement; autoAudioEnhance is
\* the state of the checkbox.
ProcessFullVideo ==
    /\ pagePc = "ready"
    /\ currentVideoFile # NoFile
    /\ Len(enhanceLog) < MaxEnhanceCalls
    /\ \E autoAudioEnhance \in BOOLEAN :
           IF autoAudioEnhance
           THEN LET call == EnhanceAudio("originalVideo")
                IN  /\ sourceNode' = call.sourceNode
                    /\ attached' = call.attached
                    /\ createCalls' = call.createCalls
                    /\ enhanceLog' = Append(enhanceLog, call.outcome)
           ELSE /\ enhanceLog' = Append(enhanceLog, "unchecked")
                /\ UNCHANGED <<sourceNode, attached, createCalls>>
    /\ UNCHANGED <<pagePc, currentVideoFile>>
    /\ UNCHANGED <<shortsVars, scenesVars, audioVars, paletteVars, pacingVars,
                   frameVars, seekVars, particleVars>>

(***************************************************************************)
(* Specifications: one per pipeline, and all of them together (a behaviour  *)
(* runs one of them).                                                      *)
(***************************************************************************)
ShortsOnly ==
    /\ InitShorts /\ ScenesIdle /\ AudioIdle /\ PaletteIdle /\ PacingIdle
    /\ FrameIdle /\ SeekIdle
    /\ ParticlesIdle
    /\ EnhanceIdle

SpecShorts == ShortsOnly /\ [][FindBestMoments]_vars

ScenesOnly ==
    /\ ShortsIdle /\ InitScenes /\ AudioIdle /\ PaletteIdle /\ PacingIdle
    /\ FrameIdle /\ SeekIdle
    /\ ParticlesIdle
    /\ EnhanceIdle

SpecScenes == ScenesOnly /\ [][DetectScenes]_vars

AudioOnly ==
    /\ ShortsIdle /\ ScenesIdle /\ InitAudio /\ PaletteIdle /\ PacingIdle
    /\ FrameIdle /\ SeekIdle
    /\ ParticlesIdle
    /\ EnhanceIdle

NextAudio == AudioSeeked \/ AudioReturn

SpecAudio == AudioOnly /\ [][NextAudio]_vars

PaletteOnly ==
    /\ ShortsIdle /\ ScenesIdle /\ AudioIdle /\ InitPalette /\ PacingIdle
    /\ FrameIdle /\ SeekIdle
    /\ ParticlesIdle
    /\ EnhanceIdle

NextPalette == KMeansIterate \/ QuantizeReturn

SpecPalette == PaletteOnly /\ [][NextPalette]_vars

PacingOnly ==
    /\ ShortsIdle /\ AudioIdle /\ PaletteIdle /\ InitPacing
    /\ FrameIdle /\ SeekIdle
    /\ ParticlesIdle
    /\ EnhanceIdle

NextPacing == DetectScenes \/ SuggestCuts \/ GenerateAutoPacing

SpecPacing == PacingOnly /\ [][NextPacing]_vars

FrameOnly ==
    /\ ShortsIdle /\ ScenesIdle /\ AudioIdle /\ PaletteIdle /\ PacingIdle
    /\ InitFrame /\ SeekIdle
    /\ ParticlesIdle
    /\ EnhanceIdle

NextFrame == CaptureMoment \/ AnalyzeFrame

SpecFrame == FrameOnly /\ [][NextFrame]_vars

OneSamplerOnly ==
    /\ ShortsIdle /\ ScenesIdle /\ AudioIdle /\ PaletteIdle /\ PacingIdle
    /\ FrameIdle /\ InitOneSampler
    /\ ParticlesIdle
    /\ EnhanceIdle

SharedSamplersOnly ==
    /\ ShortsIdle /\ ScenesIdle /\ AudioIdle /\ PaletteIdle /\ PacingIdle
    /\ FrameIdle /\ InitSharedSamplers
    /\ ParticlesIdle
    /\ EnhanceIdle

NextSampling == CallSamplers \/ Seeked

SpecSampling == OneSamplerOnly /\ [][NextSampling]_vars

\* Every issued seek fires its seeked event, and every called operation
\* starts.
SpecSharedSampling ==
    /\ SharedSamplersOnly /\ [][NextSampling]_vars
    /\ WF_vars(Seeked) /\ WF_vars(CallSamplers)

ParticlesOnly ==
    /\ ShortsIdle /\ ScenesIdle /\ AudioIdle /\ PaletteIdle /\ PacingIdle
    /\ FrameIdle /\ SeekIdle /\ InitParticles
    /\ EnhanceIdle

SpecParticles == ParticlesOnly /\ [][RenderParticles]_vars

EnhanceOnly ==
    /\ ShortsIdle /\ ScenesIdle /\ AudioIdle /\ PaletteIdle /\ PacingIdle
    /\ FrameIdle /\ SeekIdle /\ ParticlesIdle /\ InitEnhance

NextEnhance == LoadVideo \/ ProcessFullVideo

SpecEnhance == EnhanceOnly /\ [][NextEnhance]_vars

Init ==
    \/ ShortsOnly \/ ScenesOnly \/ AudioOnly \/ PaletteOnly \/ PacingOnly
    \/ FrameOnly \/ OneSamplerOnly \/ SharedSamplersOnly
    \/ ParticlesOnly
    \/ EnhanceOnly

Next ==
    \/ FindBestMoments \/ DetectScenes \/ AudioSeeked \/ AudioReturn
    \/ KMeansIterate \/ QuantizeReturn \/ SuggestCuts \/ GenerateAutoPacing
    \/ CaptureMoment \/ AnalyzeFrame \/ CallSamplers \/ Seeked
    \/ RenderParticles
    \/ LoadVideo \/ ProcessFullVideo

Spec == Init /\ [][Next]_vars

(***************************************************************************)
(* Properties of findBestMoments.                                          *)
(***************************************************************************)
ShortsDone == shortsPc = "done"

\* The sample times lie in [0, videoDuration) and increase strictly.
TimesInside ==
    /\ \A i \in 1..Len(moments) :
           0 <= moments[i].time /\ moments[i].time < videoDuration
    /\ \A i \in 1..Len(moments) - 1 : moments[i].time < moments[i + 1].time

\* C1: for strictly increasing sample times inside [0, videoDuration), a
\* count >= 1 and a clip duration > 0, the returned list is sorted by start
\* ascending and no two returned segments share a time point, endpoints
\* included.
C1_NonOverlappingSorted ==
    (ShortsDone /\ TimesInside /\ count >= 1 /\ duration > 0) =>
        \A i, j \in 1..Len(bestMoments) :
            i < j => /\ bestMoments[i].start <= bestMoments[j].start
                     /\ bestMoments[i].end < bestMoments[j].start

\* Two segments were accepted out of chronological order and a candidate was
\* turned down.
C1_Witness ==
    /\ ShortsDone /\ TimesInside /\ duration > 0
    /\ Len(bestMoments) >= 2
    /\ bestMoments # selectedSegments
    /\ Len(peaks) > Len(selectedSegments)

\* Sample i passes the peak filter: score > 50, or a score jump > 20 from
\* the sample before it.
PassesFilter(i) ==
    \/ moments[i].score > 50
    \/ i > 1 /\ Abs(moments[i].score - moments[i - 1].score) > 20

NumPassed == Cardinality({i \in 1..Len(moments) : PassesFilter(i)})

\* C2: findBestMoments returns (without an error) at most
\* min(count, number of samples that passed the peak filter) segments, and
\* never accepts more than count.
C2_AtMostCount ==
    ShortsDone =>
        /\ Len(selectedSegments) <= count
        /\ Len(bestMoments) <= Min(count, NumPassed)

\* Fewer non-overlapping windows than requested: a shorter list is returned
\* although candidates were left.
C2_Witness ==
    /\ ShortsDone
    /\ bestMoments # <<>>
    /\ Len(bestMoments) < count
    /\ Len(peaks) > Len(bestMoments)

\* The clamped interval of the k-th ranked candidate.
CandStart(k) == Max(0, peaks[k].time - duration \div 2)
CandEnd(k) == Min(videoDuration, peaks[k].time + duration \div 2)

\* The closed intervals of candidates k and j share a point.
Intersects(k, j) == CandStart(k) <= CandEnd(j) /\ CandStart(j) <= CandEnd(k)

\* Candidate k was accepted (sample times are distinct).
IsAccepted(k) ==
    \E j \in 1..Len(selectedSegments) :
        selectedSegments[j].peakTime = peaks[k].time

AcceptedBefore(k) == {j \in 1..k - 1 : IsAccepted(j)}

\* The greedy pass reached candidate k: fewer than count were accepted
\* before it.
Examined(k) == Cardinality(AcceptedBefore(k)) < count

C4_SegmentBounds ==
    ShortsDone =>
        \A i \in 1..Len(bestMoments) :
            LET seg == bestMoments[i]
            IN  /\ seg.start = Max(0, seg.peakTime - duration \div 2)
                /\ seg.end = Min(videoDuration, seg.peakTime + duration \div 2)
                /\ 0 <= seg.start /\ seg.start < seg.end
                /\ seg.start <= seg.peakTime /\ seg.peakTime <= seg.end
                /\ seg.end - seg.start <= duration

\* C5: findBestMoments returns the empty list whenever the clip duration is
\* 0 or exactly one sample was collected.
C5_EmptyOnBoundary ==
    (ShortsDone /\ (duration = 0 \/ Len(moments) = 1)) => bestMoments = <<>>

\* The input is that of scenario A.
IsScenarioA ==
    /\ [i \in 1..Len(moments) |-> moments[i].time] = <<0, 1, 2, 3, 4, 5>>
    /\ [i \in 1..Len(moments) |-> moments[i].score] = <<10, 10, 10, 90, 10, 10>>
    /\ count = 1 /\ duration = 2 /\ videoDuration >= 5

\* C6: scenario A (scores 10,10,10,90,10,10 at times 0..5, count 1,
\* duration 2) returns exactly one segment, start 2, end 4, peakTime 3.
C6_ScenarioA ==
    (ShortsDone /\ IsScenarioA) =>
        /\ Len(bestMoments) = 1
        /\ bestMoments[1].start = 2
        /\ bestMoments[1].end = 4
        /\ bestMoments[1].peakTime = 3

\* Scenario A has run and left two ranked candidates (the peak and the drop
\* after it).
C6_Witness == ShortsDone /\ IsScenarioA /\ Len(peaks) = 2

(***************************************************************************)
(* Properties of detectScenes.                                             *)
(***************************************************************************)
ScenesDone == scenesPc = "done"

BrightnessDelta(i) == Abs(keyFrames[i].brightness - keyFrames[i - 1].brightness)
ColorDelta(i) == Abs(keyFrames[i].colorfulness - keyFrames[i - 1].colorfulness)

\* An event was emitted for key frame i (key frame times are distinct).
HasEvent(i) == \E e \in 1..Len(scenes) : scenes[e].time = keyFrames[i].time

\* C7: detectScenes emits an event for index i >= 1 if and only if the
\* brightness delta or the colourfulness delta to the frame before exceeds
\* 30; the event carries that frame's time and the sum of the two deltas as
\* intensity, and the events are in increasing time order.
C7_SceneEvents ==
    ScenesDone =>
        /\ \A i \in 2..Len(keyFrames) :
               HasEvent(i) <=> (BrightnessDelta(i) > 30 \/ ColorDelta(i) > 30)
        /\ \A e \in 1..Len(scenes) :
               \E i \in 2..Len(keyFrames) :
                   /\ scenes[e].time = keyFrames[i].time
                   /\ scenes[e].intensity = BrightnessDelta(i) + ColorDelta(i)
        /\ \A e \in 1..Len(scenes) - 1 : scenes[e].time < scenes[e + 1].time

\* One pair of frames gave an event and another, with a delta of exactly 30,
\* gave none.
C7_Witness ==
    /\ ScenesDone
    /\ scenes # <<>>
    /\ \E i \in 2..Len(keyFrames) :
           ~HasEvent(i) /\ (BrightnessDelta(i) = 30 \/ ColorDelta(i) = 30)

\* C8: for n key frames detectScenes returns at most max(0, n - 1) events,
\* none when n < 2, and every event has intensity >= 30.
C8_SceneCount ==
    ScenesDone =>
        /\ Len(scenes) <= Max(0, Len(keyFrames) - 1)
        /\ Len(keyFrames) < 2 => scenes = <<>>
        /\ \A e \in 1..Len(scenes) : scenes[e].intensity >= 30

\* Every consecutive pair gave an event, one of them on the colourfulness
\* delta alone.
C8_Witness ==
    /\ ScenesDone
    /\ Len(keyFrames) >= 3
    /\ Len(scenes) = Len(keyFrames) - 1
    /\ \E i \in 2..Len(keyFrames) : BrightnessDelta(i) = 0

(***************************************************************************)
(* Properties of analyzeAudio.                                             *)
(***************************************************************************)
AudioDone == audioPc = "done"

\* Sample i (0-based, taken at time i) is below the silence threshold.
Below(i) == audioLevels[i + 1] < 30

\* The maximal runs of below-threshold samples among the first n samples
\* that are followed by a non-silent sample: <<time of the first silent
\* sample, time of the non-silent sample>>.
ClosedRuns(n) ==
    {r \in (0..n - 1) \X (0..n - 1) :
        /\ r[1] < r[2]
        /\ \A i \in r[1]..r[2] - 1 : Below(i)
        /\ ~Below(r[2])
        /\ r[1] = 0 \/ ~Below(r[1] - 1)}

RECURSIVE RunsLength(_)
RunsLength(R) ==
    IF R = {} THEN 0
    ELSE LET r == CHOOSE x \in R : TRUE
         IN  (r[2] - r[1]) + RunsLength(R \ {r})

\* What one handled sample does to the open-run pointer and the closed runs.
C9_Step ==
    audioIndex' = audioIndex + 1 =>
        LET time == audioIndex
            level == audioLevels[audioIndex + 1]
        IN  /\ (level < 30 /\ currentSilentStart = Null) =>
                /\ currentSilentStart' = time
                /\ silentSegments' = silentSegments
            /\ (level >= 30 /\ currentSilentStart # Null) =>
                /\ currentSilentStart' = Null
                /\ silentSegments' =
                       Append(silentSegments,
                              [start |-> currentSilentStart, end |-> time,
                               duration |-> time - currentSilentStart])
            /\ ~(level < 30 /\ currentSilentStart = Null)
               /\ ~(level >= 30 /\ currentSilentStart # Null) =>
                /\ currentSilentStart' = currentSilentStart
                /\ silentSegments' = silentSegments

\* The closed runs are the maximal closed runs of the samples handled.
C9_Runs ==
    /\ {<<silentSegments[j].start, silentSegments[j].end>> :
            j \in 1..Len(silentSegments)} = ClosedRuns(audioIndex)
    /\ Len(silentSegments) = Cardinality(ClosedRuns(audioIndex))

\* C9: the open-run pointer is a two-state machine over the ordered samples:
\* a sample with level < 30 while no run is open opens a run at its time, a
\* sample with level >= 30 while a run is open closes it as {start of the
\* run, time of this sample}, no other sample changes the pointer; hence the
\* closed runs are exactly the maximal runs of below-threshold samples that
\* a non-silent sample follows.
C9_TwoStateMachine == [][C9_Step]_vars /\ []C9_Runs

\* A run was closed by a sample exactly at the threshold and a second run is
\* open.
C9_Witness ==
    /\ audioPc = "sampling"
    /\ currentSilentStart # Null
    /\ \E j \in 1..Len(silentSegments) :
           audioLevels[silentSegments[j].end + 1] = 30

\* C10: a silence run still open when the samples end is dropped: it is in
\* neither silentSegments nor totalSilence (which is the total length of the
\* closed runs), and an input that is silent throughout yields no window and
\* totalSilence = 0.
C10_OpenRunDropped ==
    AudioDone =>
        /\ audioResult.totalSilence = RunsLength(ClosedRuns(Len(audioLevels)))
        /\ currentSilentStart # Null =>
               \A j \in 1..Len(audioResult.silentSegments) :
                   audioResult.silentSegments[j].end < currentSilentStart
        /\ (\A i \in 0..Len(audioLevels) - 1 : Below(i)) =>
               /\ audioResult.silentSegments = <<>>
               /\ audioResult.totalSilence = 0

\* The samples ended in an open run of several samples, after a closed run.
C10_Witness ==
    /\ AudioDone
    /\ currentSilentStart # Null
    /\ Len(audioLevels) - currentSilentStart >= 3
    /\ silentSegments # <<>>

\* The <<start, end>> pairs of a list of windows.
Spans(ws) == {<<ws[j].start, ws[j].end>> : j \in 1..Len(ws)}

C12_TotalSilenceOfAllRuns ==
    AudioDone =>
        /\ audioResult.totalSilence = RunsLength(Spans(silentSegments))
        /\ Len(silentSegments) = Cardinality(Spans(silentSegments))
        /\ audioResult.totalSilence >=
               RunsLength(Spans(audioResult.silentSegments))

\* totalSilence is strictly greater than the sum over the returned windows:
\* a run was closed and filtered out.
C12_Witness ==
    /\ AudioDone
    /\ Len(silentSegments) >= 2
    /\ audioResult.totalSilence >
           RunsLength(Spans(audioResult.silentSegments))

\* C13: scenario B (levels 50,50,10,10,10,60 at the seconds 0..5, threshold
\* 30) returns exactly one window, from 2 s to 5 s with duration 3 s (20, 50
\* and 30 ticks), and totalSilence = 3 s.
C13_ScenarioB ==
    (AudioDone /\ audioLevels = ScenarioBLevels) =>
        /\ audioResult.silentSegments =
               <<[start |-> 20, end |-> 50, duration |-> 30]>>
        /\ audioResult.totalSilence = 30

\* Scenario B has run to its end.
C13_Witness ==
    AudioDone /\ audioLevels = ScenarioBLevels /\ audioIndex = 51

(***************************************************************************)
(* Claims about quantizeColors.                                            *)
(***************************************************************************)
PaletteDone == palettePc = "done"

\* C14: quantizeColors returns exactly k centroids for every input, also
\* when fewer than k pixels (or none) were sampled, and every component of a
\* returned centroid is an integer in 0..255.
C14_ExactlyKCentroids ==
    PaletteDone =>
        /\ Len(centroids) = paletteK
        /\ \A c \in 1..Len(centroids) :
               /\ Len(centroids[c]) = 3
               /\ \A x \in 1..3 : centroids[c][x] \in 0..255

\* Fewer pixels than k were sampled, and the call has returned.
C14_Witness == PaletteDone /\ Len(pixels) < paletteK

Black == <<0, 0, 0>>
White == <<255, 255, 255>>

IsScenarioC == pixels = <<Black, Black, White, White>> /\ paletteK = 2

\* C15: scenario C, k = 2 over the pixels black, black, white, white (both
\* seeds black): after the first assignment the second cluster is empty and
\* its centroid is reset to (0, 0, 0), and after the 10 iterations the two
\* centroids are (0, 0, 0) and (255, 255, 255).
C15_ScenarioC ==
    IsScenarioC =>
        /\ paletteIter = 0 => centroids = <<Black, Black>>
        /\ paletteIter = 1 => clusters[2] = <<>> /\ centroids[2] = Black
        /\ PaletteDone =>
               /\ paletteIter = MaxIterations
               /\ {centroids[c] : c \in 1..Len(centroids)} = {Black, White}
               /\ Len(centroids) = 2

\* Scenario C has run its 10 iterations and returned.
C15_Witness == IsScenarioC /\ PaletteDone /\ centroids = <<White, Black>>

(***************************************************************************)
(* Claims about generateAutoPacing and suggestCuts.                        *)
(***************************************************************************)
PacingDone == pacingPc = "done"

\* The threshold the claim gives a mode: slow 0.6, fast 0.8, balanced 0.7 and
\* balanced for every other mode.
StatedThreshold(m) ==
    IF m = "slow" THEN 60 ELSE IF m = "fast" THEN 80 ELSE 70

\* The indices of the suggestions whose confidence is above the threshold t.
Passing(t) ==
    {j \in 1..Len(suggestedCuts) : suggestedCuts[j].confidence > t}

\* The times of the suggestions at the indices J, in suggestion order.
TimesAt(J) ==
    [r \in 1..Cardinality(J) |-> suggestedCuts[Ascending(J)[r]].time]

\* C16: the returned cuts are exactly the times of the suggested cuts whose
\* confidence is strictly greater than the threshold of the mode (slow 0.6,
\* balanced 0.7, fast 0.8), in suggestion order, and every unrecognised mode
\* uses the balanced configuration.
C16_CutsAboveThreshold ==
    PacingDone => pacing.cuts = TimesAt(Passing(StatedThreshold(mode)))

\* The same for the modes that are not names inherited from
\* Object.prototype.
C16_OwnOrUnknownModes ==
    (PacingDone /\ mode \notin InheritedNames) =>
        pacing.cuts = TimesAt(Passing(StatedThreshold(mode)))

\* A scene cut and a low-motion cut with different outcomes in balanced mode.
C16_OwnOrUnknownModesWitness ==
    /\ PacingDone /\ mode = "cinematic"
    /\ Len(pacing.cuts) = 1 /\ Len(suggestedCuts) = 2

\* The indices of the low-motion suggestions.
LowMotionIdx ==
    {j \in 1..Len(suggestedCuts) : suggestedCuts[j].reason = LowMotionReason}

\* The duration of a suggestion, 1 when it has none.
StatedDuration(cut) ==
    IF "duration" \in DOMAIN cut THEN cut.duration ELSE 1

StatedSpeed(m) ==
    IF m = "slow" THEN 110 ELSE IF m = "fast" THEN 150 ELSE 120

\* The pairs (i, i + 1) whose earlier sample has edgeIntensity < 15.
SlowPairs ==
    {i \in 1..(Len(keyFrames) - 1) : keyFrames[i].edgeIntensity < 15}

CutsSuggested == pacingPc \in {"analyzed", "done", "failed"}

\* The sum of edgeIntensity over the 5 samples that start at the frame s.
WindowEdges(s) ==
    keyFrames[s].edgeIntensity + keyFrames[s + 1].edgeIntensity
        + keyFrames[s + 2].edgeIntensity + keyFrames[s + 3].edgeIntensity
        + keyFrames[s + 4].edgeIntensity

\* The starts, among the first frames 1 .. last, of the windows whose mean
\* edgeIntensity is below 10.
LowWindows(last) == {s \in 1..last : WindowEdges(s) < 50}

\* The low-motion suggestions of the windows that start at S.
SuggestionsOf(S) ==
    [r \in 1..Cardinality(S) |->
        LET s == Ascending(S)[r]
        IN  [time |-> keyFrames[s].time,
             duration |-> keyFrames[s + 4].time - keyFrames[s].time,
             reason |-> LowMotionReason, confidence |-> 70]]

\* The low-motion suggestions of suggestedCuts, in order.
LowMotionSuggestions ==
    [r \in 1..Cardinality(LowMotionIdx) |->
        suggestedCuts[Ascending(LowMotionIdx)[r]]]

\* C19: suggestCuts examines every window of 5 consecutive samples, every
\* start i with 0 <= i <= n - 5, the window that ends at the final sample
\* included, and emits for each window whose mean edgeIntensity is below 10 a
\* low-motion suggestion at keyFrames[i].time with duration
\* keyFrames[i+4].time - keyFrames[i].time and confidence 0.7.
C19_EveryWindowExamined ==
    CutsSuggested =>
        LowMotionSuggestions = SuggestionsOf(LowWindows(Len(keyFrames) - 4))

\* What the loop does: the starts 0 <= i <= n - 6, every window but the one
\* that ends at the final sample.
C19_AllButTheLastWindow ==
    CutsSuggested =>
        LowMotionSuggestions = SuggestionsOf(LowWindows(Len(keyFrames) - 5))

\* C20: an empty sample sequence (or non-monotonic timestamps, or a negative
\* duration) makes detectScenes, suggestCuts, the selection of findBestMoments
\* and analyzeAudio fail with an error: none of them returns a result for it.
C20_InvalidInputFails ==
    /\ (scenesPc = "done" \/ CutsSuggested) => keyFrames # <<>>
    /\ ShortsDone => moments # <<>>
    /\ AudioDone => audioLevels # <<>>

(***************************************************************************)
(* Claims about the frame statistics.                                      *)
(***************************************************************************)
MomentCaptured == momentPc = "captured"
FrameAnalyzed == framePc = "analyzed"

\* C21: for an image with zero pixels every frame statistic (the score and
\* the brightness of the moment; brightness, colorfulness and edgeIntensity
\* of analyzeFrame) is the fallback value 0: no division by a zero pixel
\* count, no NaN.
C21_ZeroPixelsFallback ==
    imageData = <<>> =>
        /\ MomentCaptured =>
               IsZero(momentStats.score) /\ IsZero(momentStats.brightness)
        /\ FrameAnalyzed =>
               /\ IsZero(frameAnalysis.brightness)
               /\ IsZero(frameAnalysis.colorfulnessSquared)
               /\ IsZero(frameAnalysis.edgeIntensity)

\* The part of C21 that holds: the score of an image with zero pixels is 0.
C21_ScoreOfNoPixels ==
    (imageData = <<>> /\ MomentCaptured) => IsZero(momentStats.score)

\* What the other statistics are for zero pixels: 0 / 0.
C21_NaNOfNoPixels ==
    imageData = <<>> =>
        /\ MomentCaptured => IsNaN(momentStats.brightness)
        /\ FrameAnalyzed =>
               /\ IsNaN(frameAnalysis.brightness)
               /\ IsNaN(frameAnalysis.colorfulnessSquared)
               /\ IsNaN(frameAnalysis.edgeIntensity)

\* Every pixel of the frame has the same (r, g, b).
IsUniform(img) == \A i, j \in 1..Len(img) : img[i] = img[j]
IsGrey(p) == p[1] = p[2] /\ p[2] = p[3]

\* C22: calculateInterestScore returns 0 for every fully uniform frame,
\* whatever the colour of its pixels.
C22_UniformScoresZero ==
    (MomentCaptured /\ IsUniform(imageData)) => IsZero(momentStats.score)

\* The part of C22 that holds: a uniform frame of a grey scores 0.
C22_UniformGreyScoresZero ==
    (MomentCaptured /\ IsUniform(imageData)
        /\ \A i \in 1..Len(imageData) : IsGrey(imageData[i])) =>
        IsZero(momentStats.score)

(***************************************************************************)
(* Claims about the sampling loops.                                        *)
(***************************************************************************)
Called == {op \in SamplingOps : samplers[op].pc # "absent"}

\* The times of the samples of op are strictly increasing.
IncreasingTimes(op) ==
    \A j \in 1..(Len(samplers[op].samples) - 1) :
        samplers[op].samples[j].time < samplers[op].samples[j + 1].time

\* C23: within one sampling loop the seek i + 1 is issued only after the
\* seeked callback of the seek i has appended its sample: at most one seek is
\* outstanding, one sample is appended per seek, and the samples have strictly
\* increasing times (no duplicates).
C23_OneSeekAtATime ==
    \A op \in Called :
        LET s == samplers[op]
        IN  /\ s.pc = "ready" => s.issued = 0 /\ s.samples = <<>>
            /\ s.pc = "waiting" =>
                   /\ s.issued = Len(s.samples) + 1
                   /\ seekedEvents = <<SeekTime(op, Len(s.samples), seekDuration)>>
            /\ s.pc = "returned" =>
                   /\ s.issued = Len(s.samples)
                   /\ s.issued = TotalSamples(op, seekDuration)
                   /\ seekedEvents = <<>>
            /\ IncreasingTimes(op)
            /\ \A j \in 1..Len(s.samples) :
                   s.samples[j].time = s.samples[j].frame

\* A loop of at least three seeks has returned.
C23_Witness ==
    \E op \in Called :
        samplers[op].pc = "returned" /\ Len(samplers[op].samples) >= 3

\* Every sample was captured from the frame of the time its call requested.
CapturedAtRequestedTime ==
    \A op \in Called :
        \A j \in 1..Len(samplers[op].samples) :
            samplers[op].samples[j].frame = samplers[op].samples[j].time

\* Every called operation eventually returns.
EverySamplerReturns ==
    \A op \in SharedOps :
        (samplers[op].pc \in {"ready", "waiting"})
            ~> (samplers[op].pc = "returned")

\* C30: when every issued seek fires its seeked event, every call of a
\* sampling operation eventually returns and each of its samples is captured
\* at the time that call requested, also while another sampling operation is
\* in progress on the same video element.
C30_ConcurrentSampling == []CapturedAtRequestedTime /\ EverySamplerReturns

\* The safety half of C30 alone.
C30_SamplesAtRequestedTime == []CapturedAtRequestedTime

\* An operation waits for ever: no seek is pending and its handler is not the
\* installed one.
C30_Stuck ==
    \E op \in Called :
        /\ samplers[op].pc = "waiting"
        /\ seekedEvents = <<>>
        /\ \A other \in Called : samplers[other].pc # "ready"

(***************************************************************************)
(* More claims about findBestMoments, suggestCuts, generateAutoPacing and  *)
(* analyzeAudio.                                                           *)
(***************************************************************************)

\* motion[0] = 0, motion[i] = |score[i] - score[i - 1]|
StatedMotion(i) ==
    IF i = 1 THEN 0 ELSE Abs(moments[i].score - moments[i - 1].score)

\* The sample i is a candidate: score > 50 or motion > 20.
IsCandidate(i) == moments[i].score > 50 \/ StatedMotion(i) > 20

\* score + motion of the sample i
StatedRank(i) == moments[i].score + StatedMotion(i)

\* The sample i comes before the sample j in the candidate order.
Before(i, j) ==
    StatedRank(i) > StatedRank(j) \/ (StatedRank(i) = StatedRank(j) /\ i < j)

\* The candidates that fewer than 3 * count candidates come before.
TopCandidates ==
    {i \in 1..Len(moments) :
        /\ IsCandidate(i)
        /\ Cardinality({j \in 1..Len(moments) : IsCandidate(j) /\ Before(j, i)})
               < 3 * count}

\* C24: the candidate list of findBestMoments holds the samples with
\* score > 50 or motion > 20, ordered by non-increasing score + motion with
\* ties in sample order, truncated to the first 3 * count entries.
C24_CandidateList ==
    ShortsDone =>
        /\ {peaks[k].index + 1 : k \in 1..Len(peaks)} = TopCandidates
        /\ Len(peaks) = Cardinality(TopCandidates)
        /\ \A k \in 1..Len(peaks) :
               LET i == peaks[k].index + 1
               IN  /\ peaks[k].time = moments[i].time
                   /\ peaks[k].score = moments[i].score
                   /\ peaks[k].motion = StatedMotion(i)
        /\ \A k, l \in 1..Len(peaks) :
               k < l => Before(peaks[k].index + 1, peaks[l].index + 1)

\* Four candidates of equal rank, truncated to three.
C24_Witness ==
    /\ ShortsDone /\ Len(peaks) = 3
    /\ Cardinality({i \in 1..Len(moments) : IsCandidate(i)}) = 4
    /\ StatedRank(1) = StatedRank(2)

\* The indices of the scene events with intensity > 50.
MajorScenes == {j \in 1..Len(scenes) : scenes[j].intensity > 50}

\* The indices of the scene-change suggestions.
SceneChangeIdx ==
    {j \in 1..Len(suggestedCuts) : suggestedCuts[j].reason = SceneReason}

\* C25: suggestCuts turns exactly the scene events with intensity > 50 into
\* scene-change suggestions at the time of the event with confidence
\* min(intensity / 100, 1), and every suggestion it produces, scene-change or
\* low-motion, has a confidence in [0, 1].
C25_SceneSuggestions ==
    CutsSuggested =>
        /\ [r \in 1..Cardinality(SceneChangeIdx) |->
               suggestedCuts[Ascending(SceneChangeIdx)[r]]]
           = [r \in 1..Cardinality(MajorScenes) |->
                 LET scene == scenes[Ascending(MajorScenes)[r]]
                 IN  [time |-> scene.time, reason |-> SceneReason,
                      confidence |->
                          IF scene.intensity > 100 THEN 100
                          ELSE scene.intensity]]
        /\ \A j \in 1..Len(suggestedCuts) :
               /\ suggestedCuts[j].confidence \in 0..100
               /\ suggestedCuts[j].reason \in {SceneReason, LowMotionReason}

\* A scene event of intensity 1.1 became a suggestion of confidence 1, next
\* to a low-motion suggestion.
C25_Witness ==
    /\ CutsSuggested /\ Len(suggestedCuts) = 2
    /\ scenes # <<>> /\ scenes[1].intensity = 110
    /\ suggestedCuts[1].confidence = 100

\* A scene event of intensity 0.4 is no suggestion.
C25_MinorSceneWitness ==
    /\ CutsSuggested /\ suggestedCuts = <<>>
    /\ scenes # <<>> /\ scenes[1].intensity = 40

\* The sets of suggestions whose times, in suggestion order, are cuts.
CutSources ==
    {J \in SUBSET (1..Len(suggestedCuts)) : pacing.cuts = TimesAt(J)}

C26_SlowWitness ==
    /\ PacingDone /\ mode = "slow"
    /\ LowMotionIdx # {} /\ SceneChangeIdx = {} /\ Len(pacing.cuts) = 1

\* The windows of segs are in increasing start order and apart: every window
\* has start < end, and ends strictly before the next one starts.
DisjointWindows(segs) ==
    /\ \A j \in 1..Len(segs) : segs[j].start < segs[j].end
    /\ \A j \in 1..(Len(segs) - 1) : segs[j].end < segs[j + 1].start

\* C27: for samples with strictly increasing times the silence windows that
\* analyzeAudio collects, and those it returns, are in increasing start order
\* and pairwise disjoint: each window ends strictly before the next starts and
\* has start < end.
C27_DisjointSilenceWindows ==
    /\ DisjointWindows(silentSegments)
    /\ AudioDone => DisjointWindows(audioResult.silentSegments)

\* Two windows with a single louder sample between them.
C27_Witness ==
    /\ AudioDone /\ Len(silentSegments) >= 2
    /\ silentSegments[2].start = silentSegments[1].end + 1

(***************************************************************************)
(* Claims about renderParticles.                                           *)
(***************************************************************************)

\* No dead particle is left in the list.
NoDeadParticle == \A i \in 1..Len(particles) : ~IsDead(particles[i])

\* C28: after a renderParticles call no particle with life <= 0 or y < -50
\* remains in the list, and every particle that was in the list when the
\* update pass started has been updated exactly once: removing a dead
\* particle does not make the pass skip the one that follows it.
C28_EveryParticleUpdatedOnce ==
    /\ NoDeadParticle
    /\ \A i \in 1..Len(passUpdates) : passUpdates[i] = 1

\* The part of C28 that holds: no dead particle remains.
C28_NoDeadParticleRemains == NoDeadParticle

\* A particle was skipped by the pass that removed the particle before it.
C28_Skipped ==
    \E i \in 2..Len(passUpdates) : passUpdates[i] = 0 /\ passUpdates[i - 1] = 1

(***************************************************************************)
(* Claims about the shared AudioProcessor.                                 *)
(***************************************************************************)

\* The outcomes of the enhanceAudio calls made on an element that had a
\* source already: every call after the one that created it.
LaterOutcomes ==
    {enhanceLog[i] : i \in {j \in 1..Len(enhanceLog) :
        \E h \in 1..(j - 1) : enhanceLog[h] = "created"}} \ {"unchecked"}

\* C29: over any sequence of loadVideo and processFullVideo the shared
\* AudioProcessor creates a media-element source for a video element at
\* most once; an enhanceAudio on an element that has a source reuses it,
\* also after loadVideo loaded another file into the element.
C29_SourceCreatedOnce ==
    /\ \A el \in Elements : createCalls[el] <= 1
    /\ LaterOutcomes \subseteq {"reused"}

\* What holds of the code: the source node the processor holds is one that
\* was created for its element.
C29_ReusedWhileSourceNodeSet ==
    sourceNode # NoSource => sourceNode \in attached

\* A second createMediaElementSource call on the element, after a reload.
C29_CreatedAgain ==
    /\ \E el \in Elements : createCalls[el] = 2
    /\ "threw" \in LaterOutcomes

====
